---- MODULE Spec2Model ----
(***************************************************************************)
(* WordJotter: the spaced-repetition review scheduler (learningService)    *)
(* over the saved_words table (databaseService).                           *)
(*                                                                         *)
(* Time is a count of ticks since the epoch (an instant, as a JS Date      *)
(* holds it); a day has TicksPerDay ticks.  The local time zone is         *)
(* TzOffset ticks ahead of UTC.  An ISO-8601 string, as toISOString()      *)
(* produces it, is the pair <<UTC day, UTC tick of the day>>.              *)
(*                                                                         *)
(* Every awaited database call is one step of its own: an async handler    *)
(* is modelled as one action per stretch of code between two awaits.       *)
(*                                                                         *)
(* Every SQL statement is atomic and may throw.  created_at grows with the *)
(* id, so ORDER BY created_at DESC is the order of descending ids.  The    *)
(* zone offset is constant: no daylight-saving change is modelled.         *)
(***************************************************************************)
EXTENDS Integers, Sequences, FiniteSets, TLC

(* ---------------- bounds of the model ---------------- *)
MaxWords == 2       \* Spec: rows ever inserted (AUTOINCREMENT ids 1..MaxWords)
MaxTime == 6        \* Spec: the clock stops here
ConcWords == 1      \* SpecConc: rows ever inserted
ConcTime == 2       \* SpecConc: the clock stops here
MaxCalls == 2       \* SpecConc: updateWordAfterReview calls in flight at once
TicksPerDay == 2    \* granularity of the time of day
TzOffset == 1       \* local time = UTC + TzOffset ticks
CardWords == 3      \* SpecCards: rows of the table the session starts on
CardTime == 1       \* SpecCards: the clock stops here
PastDays == 3       \* SpecCards: the earlier reviews were now or PastDays days ago
MaxSaves == 2       \* ReminderScreen: saveSettings runs in flight at once
FlashWords == 2     \* SpecFlash: rows of the table the session starts on
FlashCalls == 1     \* SpecFlash: review handlers awaiting at once
MaxLoads == 1       \* SpecFlash: loadCards calls awaiting their rows at once
MaxTimers == 2      \* SpecFlash: index updates pending or about to be set
FrameSaves == 1     \* SpecFrame: handler runs of ReminderScreen under way at once
FrameNotes == 1     \* SpecFrame: quick notes ever inserted
FrameWords == 2     \* SpecFrame: rows ever inserted
FrameReviewed == 1  \* SpecFrame: the rows 1..FrameReviewed are reviewed
AnyWords == 2       \* SpecAny: rows ever held (one of them pre-existing)
AnyTime == 1        \* SpecAny: the clock stops here
LevelSpread == 2    \* SpecAny: pre-existing levels from -LevelSpread to 5 + LevelSpread

(* ---------------- program constants ---------------- *)
\* learningService: const INTERVALS = [1, 3, 7, 14, 30, 90]
INTERVALS == <<1, 3, 7, 14, 30, 90>>

\* next_review_date TEXT with no default: SQL NULL
NULL == <<>>

\* SQL NULL in the INTEGER column learning_level (no NOT NULL constraint)
NullLevel == -100

Slots == 1..MaxCalls

SaveSlots == 1..MaxSaves

VARIABLES
    words,       \* saved_words: id -> [learning_level, next_review_date]
    nextId,      \* the AUTOINCREMENT sequence of saved_words
    now,         \* the wall clock (what new Date() reads)
    calls,       \* updateWordAfterReview invocations: slot -> its locals
    ret,         \* what the step just taken returned to its caller
    reviewedAt,  \* history: id -> clock read by the review last written
    cards,       \* FlashcardScreen: the cards state (rows, as shuffled)
    currentIndex, \* FlashcardScreen: the currentIndex state (from 0)
    timers,      \* FlashcardScreen: pending setTimeout callbacks, oldest
                 \* first, each the index it will set
    loads,       \* FlashcardScreen: loadCards calls awaiting their rows
    snackbar,    \* FlashcardScreen: the feedback snackbar
    reviews,     \* FlashcardScreen: slot -> the review handler awaiting it
    notes,       \* quick_notes: id -> processed
    nextNoteId,  \* the AUTOINCREMENT sequence of quick_notes
    settings,    \* reminder_settings: the row with id 1, or NULL
    scheduled,   \* expo-notifications: the scheduled notifications
    permission,  \* expo-notifications: the permission status
    screen,      \* ReminderScreen: enabled, time, hasPermission, mount
    saves        \* ReminderScreen: slot -> a toggleSwitch/saveSettings run

\* the state of FlashcardScreen next to cards
flashVars == <<currentIndex, timers, loads, snackbar, reviews>>

\* the quick_notes table
noteVars == <<notes, nextNoteId>>

\* the reminder settings, the notifications and ReminderScreen
reminderVars == <<settings, scheduled, permission, screen, saves>>

\* what the operations on saved_words never touch
others == <<flashVars, noteVars, reminderVars>>

vars == <<words, nextId, now, calls, ret, reviewedAt, cards, others>>

(* ---------------- dates ---------------- *)
Min(a, b) == IF a <= b THEN a ELSE b

\* Date.prototype.toISOString(): the UTC fields of the instant
ToISOString(t) == <<t \div TicksPerDay, t % TicksPerDay>>

\* new Date(isoString): the instant the UTC fields denote
ParseDate(s) == s[1] * TicksPerDay + s[2]

\* getDate(): the local calendar day of the instant
LocalDay(t) == (t + TzOffset) \div TicksPerDay

\* the local time of day of the instant
LocalTod(t) == (t + TzOffset) % TicksPerDay

\* d.setDate(d.getDate() + n): same local time of day, n local days later
SetDatePlus(t, n) == (LocalDay(t) + n) * TicksPerDay + LocalTod(t) - TzOffset

(* ---------------- the calendar of the JS Date ---------------- *)
\* the local calendar date <<year, month, day of the month>> of local day 0
EpochDate == <<2024, 1, 1>>

IsLeapYear(y) == (y % 4 = 0 /\ y % 100 # 0) \/ y % 400 = 0

\* a calendar in which February has 28 days every year
DaysInMonth_NoLeap(y, m) == IF m = 2 THEN 28 ELSE IF m \in {4, 6, 9, 11} THEN 30 ELSE 31

\* the days of month m (1..12) of year y
DaysInMonth(y, m) ==
    IF m = 2 THEN (IF IsLeapYear(y) THEN 29 ELSE 28)
    ELSE IF m \in {4, 6, 9, 11} THEN 30 ELSE 31

RECURSIVE NormalizeDate(_, _, _)
\* setDate(d) with d past the end of the month: the Date rolls over into
\* the months that follow
NormalizeDate(y, m, d) ==
    IF d <= DaysInMonth(y, m) THEN <<y, m, d>>
    ELSE IF m = 12 THEN NormalizeDate(y + 1, 1, d - DaysInMonth(y, m))
         ELSE NormalizeDate(y, m + 1, d - DaysInMonth(y, m))

\* the calendar date of a local day (getFullYear, getMonth + 1, getDate)
CalendarDate(day) ==
    NormalizeDate(EpochDate[1], EpochDate[2], EpochDate[3] + day)

(* ---------------- databaseService ---------------- *)
\* a table whose learning_level column has DEFAULT 1
NewRow_LevelOne == [learning_level |-> 1, next_review_date |-> NULL]

\* CREATE TABLE saved_words: learning_level INTEGER DEFAULT 0,
\* next_review_date TEXT (NULL); saveWord's INSERT names neither column
NewRow == [learning_level |-> 0, next_review_date |-> NULL]

RECURSIVE RowsDesc(_, _)
\* SELECT * FROM saved_words ORDER BY created_at DESC, rows of ids <= n
RowsDesc(ws, n) ==
    IF n = 0 THEN <<>>
    ELSE IF n \in DOMAIN ws
         THEN <<[id |-> n, learning_level |-> ws[n].learning_level,
                 next_review_date |-> ws[n].next_review_date]>>
              \o RowsDesc(ws, n - 1)
         ELSE RowsDesc(ws, n - 1)

\* the largest id of the table (0 when it is empty)
MaxId(ws) ==
    IF DOMAIN ws = {} THEN 0
    ELSE CHOOSE i \in DOMAIN ws : \A j \in DOMAIN ws : j <= i

\* getSavedWords whose catch hands back the rows the table holds
getSavedWords_Stale(ws, dbOk) == RowsDesc(ws, MaxId(ws))

\* getSavedWords: the rows, newest first; [] when the query throws
getSavedWords(ws, dbOk) == IF dbOk THEN RowsDesc(ws, MaxId(ws)) ELSE <<>>

\* UpdateRow with the level bound one too high
UpdateRow_LevelPlusOne(ws, wordId, learningLevel, nextReviewDate) ==
    IF wordId \in DOMAIN ws
    THEN [ws EXCEPT ![wordId] = [learning_level |-> learningLevel + 1,
                                 next_review_date |-> nextReviewDate]]
    ELSE ws

\* UpdateRow that sets the level and leaves the date as it was
UpdateRow_LevelOnly(ws, wordId, learningLevel, nextReviewDate) ==
    IF wordId \in DOMAIN ws
    THEN [ws EXCEPT ![wordId].learning_level = learningLevel]
    ELSE ws

\* UpdateRow whose UPDATE has no WHERE clause: every row is written
UpdateRow_AllRows(ws, wordId, learningLevel, nextReviewDate) ==
    [i \in DOMAIN ws |-> [learning_level |-> learningLevel,
                          next_review_date |-> nextReviewDate]]

\* UPDATE saved_words SET learning_level = ?, next_review_date = ?
\* WHERE id = ?   (no row matches: nothing changes, no error)
UpdateRow(ws, wordId, learningLevel, nextReviewDate) ==
    IF wordId \in DOMAIN ws
    THEN [ws EXCEPT ![wordId] = [learning_level |-> learningLevel,
                                 next_review_date |-> nextReviewDate]]
    ELSE ws

\* updateWordLearningStatus whose catch returns true
updateWordLearningStatus_CatchTrue(ws, wordId, level, date, dbOk) ==
    [words   |-> IF dbOk THEN UpdateRow(ws, wordId, level, date) ELSE ws,
     success |-> TRUE]

\* updateWordLearningStatus: the table after the call and the value
\* returned (true, or false from the catch when runAsync throws)
updateWordLearningStatus(ws, wordId, learningLevel, nextReviewDate, dbOk) ==
    [words   |-> IF dbOk
                 THEN UpdateRow(ws, wordId, learningLevel, nextReviewDate)
                 ELSE ws,
     success |-> dbOk]

(* ---------------- learningService ---------------- *)
\* find whose callback accepts every row: the first row, if any
Find_AnyRow(rows, wordId) ==
    IF rows = <<>> THEN <<>> ELSE <<rows[1]>>

\* words.find((w) => w.id === wordId): the first match, or no match
Find(rows, wordId) ==
    LET hits == {i \in 1..Len(rows) : rows[i].id = wordId}
    IN  IF hits = {} THEN <<>>
        ELSE <<rows[CHOOSE i \in hits : \A j \in hits : i <= j]>>

\* a learning_level that !x and x || 0 treat as not set: NULL and 0
Falsy(level) == level = NullLevel \/ level = 0

\* word.learning_level || 0
LevelOrZero(level) == IF Falsy(level) THEN 0 ELSE level

\* IsDue without the never-reviewed test: only dated rows can be due
IsDue_DatedOnly(word, today) ==
    /\ word.next_review_date # NULL
    /\ ParseDate(word.next_review_date) <= today

\* IsDue that accepts a dated row at the instant of its date only
IsDue_AtTheDate(word, today) ==
    IF Falsy(word.learning_level) \/ word.next_review_date = NULL
    THEN TRUE
    ELSE ParseDate(word.next_review_date) = today

\* the filter callback of getWordsForReview
IsDue(word, today) ==
    IF Falsy(word.learning_level) \/ word.next_review_date = NULL
    THEN TRUE
    ELSE ParseDate(word.next_review_date) <= today

\* NewLearningLevel with the cap one level too low
NewLearningLevel_CapLow(wordLevel, isCorrect) ==
    IF isCorrect
    THEN Min(LevelOrZero(wordLevel) + 1, Len(INTERVALS) - 2)
    ELSE 0

\* NewLearningLevel that steps back one level on an incorrect answer
NewLearningLevel_StepBack(wordLevel, isCorrect) ==
    IF isCorrect
    THEN Min(LevelOrZero(wordLevel) + 1, Len(INTERVALS) - 1)
    ELSE IF wordLevel > 0 THEN wordLevel - 1 ELSE 0

\* NewLearningLevel that wraps round at the end of the table
NewLearningLevel_Wrap(wordLevel, isCorrect) ==
    IF isCorrect THEN (LevelOrZero(wordLevel) + 1) % Len(INTERVALS) ELSE 0

\* let learningLevel = word.learning_level || 0; then the isCorrect branch
NewLearningLevel(wordLevel, isCorrect) ==
    IF isCorrect
    THEN Min(LevelOrZero(wordLevel) + 1, Len(INTERVALS) - 1)
    ELSE 0

\* INTERVALS[learningLevel] is undefined outside the table: setDate(NaN)
\* makes the Date invalid and toISOString() throws a RangeError
InvalidDate(learningLevel) == (learningLevel + 1) \notin DOMAIN INTERVALS

\* NextReviewDate that takes the interval of the level below
NextReviewDate_LevelBelow(today, learningLevel) ==
    ToISOString(SetDatePlus(today,
        INTERVALS[IF learningLevel = 0 THEN 1 ELSE learningLevel]))

\* nextReviewDate.setDate(getDate() + INTERVALS[learningLevel]).toISOString()
NextReviewDate(today, learningLevel) ==
    ToISOString(SetDatePlus(today, INTERVALS[learningLevel + 1]))

(* ---------------- FlashcardScreen ---------------- *)
\* [shuffled[i], shuffled[j]] = [shuffled[j], shuffled[i]] that assigns
\* shuffled[i] only
Swap_Overwrite(shuffled, i, j) == [shuffled EXCEPT ![i + 1] = shuffled[j + 1]]

\* [shuffled[i], shuffled[j]] = [shuffled[j], shuffled[i]], i and j counted
\* from 0 as in the code
Swap(shuffled, i, j) ==
    [shuffled EXCEPT ![i + 1] = shuffled[j + 1], ![j + 1] = shuffled[i + 1]]

\* Math.floor(Math.random() * (i + 1)): Math.random() is in [0, 1)
DrawRange(i) == 0..i

\* the draws of one run of the loop over n cards: one j for each i in
\* n - 1 down to 1
Draws(n) ==
    {draws \in [1..(n - 1) -> 0..(n - 1)] :
        \A i \in 1..(n - 1) : draws[i] \in DrawRange(i)}

RECURSIVE ShuffleFrom(_, _, _)
\* for (; i > 0; i--) swap shuffled[i] and shuffled[draws[i]]
ShuffleFrom(shuffled, draws, i) ==
    IF i > 0 THEN ShuffleFrom(Swap(shuffled, i, draws[i]), draws, i - 1)
    ELSE shuffled

\* the loop that starts one index too low: i = shuffled.length - 2
Shuffle_SkipLast(rows, draws) == ShuffleFrom(rows, draws, Len(rows) - 2)

\* const shuffled = [...words]; for (let i = shuffled.length - 1; ...)
Shuffle(rows, draws) == ShuffleFrom(rows, draws, Len(rows) - 1)

(* ---------------- state ---------------- *)
\* reviewedAt of a row no review was written to
NoReview == -1

\* the locals of an updateWordAfterReview invocation that is not running
Idle == [pc |-> "idle", wordId |-> 0, isCorrect |-> FALSE, wordLevel |-> 0,
         learningLevel |-> 0, nextReviewDate |-> NULL, today |-> 0]

\* ret after a step in which no call returned
\* (op, wordId, isCorrect: the call; result, rows: the value returned,
\* rows being a list or the object of getLearningStats;
\* wordLevel, today: the level and the clock the call had read;
\* dbOk: history, whether the call's database statement ran;
\* handler: the locals of the screen handler that ended)
NoReturn == [op |-> "none", wordId |-> 0, isCorrect |-> FALSE,
             result |-> FALSE, rows |-> <<>>, wordLevel |-> 0, today |-> 0,
             dbOk |-> TRUE, handler |-> <<>>]

\* a slot of reviews no handler is waiting in
\* (index, length: currentIndex and cards.length of the render whose
\* handler it is)
NoHandler == [pc |-> "idle", index |-> 0, length |-> 0]

\* the snackbar before any feedback: useState(false), useState("")
\* (wordId: the word the message names, isCorrect: which message)
NoSnackbar == [visible |-> FALSE, wordId |-> 0, isCorrect |-> FALSE]

\* a slot of saves no toggleSwitch or saveSettings is running in
\* (toggle: it began as a toggleSwitch; value, time, hasPermission: the
\* arguments of saveSettings and the hasPermission state of the render
\* whose handler it is; trigger: the scheduledTime it computed)
NoSave == [pc |-> "idle", toggle |-> FALSE, value |-> FALSE, time |-> 0,
           hasPermission |-> FALSE, trigger |-> 0]

\* ReminderScreen as useState leaves it, its mount effect not yet run
\* (time is the time of day, new Date() at first; mount is where the mount
\* effect stands)
Unmounted == [enabled |-> FALSE, time |-> LocalTod(0), hasPermission |-> FALSE,
              mount |-> "checkNotificationPermissions"]

\* FlashcardScreen as useState leaves it, no loadCards under way
InitFlash ==
    /\ currentIndex = 0
    /\ timers = <<>>
    /\ loads = 0
    /\ snackbar = NoSnackbar
    /\ reviews = [s \in Slots |-> NoHandler]

\* quick_notes empty
InitNotes ==
    /\ notes = <<>>
    /\ nextNoteId = 1

\* no reminder setting saved, nothing scheduled, ReminderScreen not mounted
InitReminderScreen ==
    /\ settings = NULL
    /\ scheduled = <<>>
    /\ screen = Unmounted
    /\ saves = [s \in SaveSlots |-> NoSave]

\* the screens idle, the other tables empty, the permission never asked for
InitOthers ==
    /\ InitFlash
    /\ InitNotes
    /\ InitReminderScreen
    /\ permission = "undetermined"

\* saved_words empty, no call under way
InitWords ==
    /\ words = <<>>
    /\ nextId = 1
    /\ now = 0
    /\ calls = [s \in Slots |-> Idle]
    /\ ret = NoReturn
    /\ reviewedAt = <<>>
    /\ cards = <<>>

Init ==
    /\ InitWords
    /\ InitOthers

(* ---------------- databaseService operations ---------------- *)
\* saveWord whose statement also puts the rows there are back to new
saveWord_Resetting(dbOk) ==
    /\ words' = IF dbOk
                THEN [i \in DOMAIN words \cup {nextId} |-> NewRow]
                ELSE words
    /\ reviewedAt' = IF dbOk
                     THEN [i \in DOMAIN words \cup {nextId} |->
                             IF i = nextId THEN NoReview ELSE reviewedAt[i]]
                     ELSE reviewedAt
    /\ nextId' = IF dbOk THEN nextId + 1 ELSE nextId
    /\ ret' = [NoReturn EXCEPT !.op = "saveWord", !.result = dbOk,
                               !.dbOk = dbOk]
    /\ UNCHANGED <<now, calls, cards>>

\* saveWord(wordData): one INSERT; true, or false when it throws
saveWord(dbOk) ==
    /\ IF dbOk
       THEN /\ words' = [i \in DOMAIN words \cup {nextId} |->
                            IF i = nextId THEN NewRow ELSE words[i]]
            /\ reviewedAt' = [i \in DOMAIN words \cup {nextId} |->
                            IF i = nextId THEN NoReview ELSE reviewedAt[i]]
            /\ nextId' = nextId + 1
       ELSE UNCHANGED <<words, reviewedAt, nextId>>
    /\ ret' = [NoReturn EXCEPT !.op = "saveWord", !.result = dbOk,
                               !.dbOk = dbOk]
    /\ UNCHANGED <<now, calls, cards>>

\* deleteWord(id): one DELETE; true (also when no row matched), or false
deleteWord(id, dbOk) ==
    /\ IF dbOk
       THEN /\ words' = [i \in DOMAIN words \ {id} |-> words[i]]
            /\ reviewedAt' = [i \in DOMAIN words \ {id} |-> reviewedAt[i]]
       ELSE UNCHANGED <<words, reviewedAt>>
    /\ ret' = [NoReturn EXCEPT !.op = "deleteWord", !.wordId = id,
                               !.result = dbOk, !.dbOk = dbOk]
    /\ UNCHANGED <<nextId, now, calls, cards>>

\* getSavedWords(), called by a screen: the rows, [] when the query throws
listSavedWords(dbOk) ==
    /\ ret' = [NoReturn EXCEPT !.op = "getSavedWords", !.dbOk = dbOk,
                               !.rows = getSavedWords(words, dbOk)]
    /\ UNCHANGED <<words, nextId, now, calls, reviewedAt, cards>>

\* getWordsByCategory(category): the rows of the category, newest first;
\* the category column is not part of a row here, so the rows that match
\* are any subset; the catch returns nothing (undefined)
getWordsByCategory(match, dbOk) ==
    /\ match \subseteq DOMAIN words
    /\ ret' = [NoReturn EXCEPT !.op = "getWordsByCategory", !.dbOk = dbOk,
                 !.result = dbOk,
                 !.rows = IF dbOk
                          THEN SelectSeq(RowsDesc(words, MaxId(words)),
                                         LAMBDA w : w.id \in match)
                          ELSE <<>>]
    /\ UNCHANGED <<words, nextId, now, calls, reviewedAt, cards>>

\* the object getLearningStats builds from the rows: a NULL level counts as
\* level 0, a level of 3 or more is known
LearningStats(rows) ==
    LET Level(w) == IF w.learning_level = NullLevel THEN 0
                    ELSE w.learning_level
        With(P(_)) == Len(SelectSeq(rows, P))
    IN  [totalWords     |-> Len(rows),
         knownWords     |-> With(LAMBDA w : Level(w) >= 3),
         needPractice   |-> With(LAMBDA w : Level(w) < 3),
         learningLevels |-> [l \in 0..(Len(INTERVALS) - 1) |->
                                With(LAMBDA w : Level(w) = l)]]

\* getLearningStats(): await getSavedWords(), then the counts (all 0 when
\* the query threw, as getSavedWords then returns [])
getLearningStats(dbOk) ==
    /\ ret' = [NoReturn EXCEPT !.op = "getLearningStats", !.dbOk = dbOk,
                 !.rows = LearningStats(getSavedWords(words, dbOk))]
    /\ UNCHANGED <<words, nextId, now, calls, reviewedAt, cards>>

\* saveQuickNote(noteData): one INSERT into quick_notes (processed 0)
saveQuickNote(dbOk) ==
    /\ IF dbOk
       THEN /\ notes' = [i \in DOMAIN notes \cup {nextNoteId} |->
                            IF i = nextNoteId THEN FALSE ELSE notes[i]]
            /\ nextNoteId' = nextNoteId + 1
       ELSE UNCHANGED <<notes, nextNoteId>>
    /\ ret' = [NoReturn EXCEPT !.op = "saveQuickNote", !.result = dbOk,
                               !.dbOk = dbOk]

\* getQuickNotes(includeProcessed): the query text is put together without
\* blanks ("... quick_notesWHERE Processed = 0ORDER BY ..."), so the
\* statement never compiles and the catch returns []
getQuickNotes(includeProcessed) ==
    /\ ret' = [NoReturn EXCEPT !.op = "getQuickNotes", !.dbOk = FALSE]
    /\ UNCHANGED <<notes, nextNoteId>>

\* markNoteProcessed(id): one UPDATE of quick_notes
markNoteProcessed(id, dbOk) ==
    /\ notes' = IF dbOk /\ id \in DOMAIN notes
                THEN [notes EXCEPT ![id] = TRUE] ELSE notes
    /\ ret' = [NoReturn EXCEPT !.op = "markNoteProcessed", !.wordId = id,
                               !.result = dbOk, !.dbOk = dbOk]
    /\ UNCHANGED nextNoteId

\* deleteQuickNote(id): one DELETE from quick_notes
deleteQuickNote(id, dbOk) ==
    /\ notes' = IF dbOk THEN [i \in DOMAIN notes \ {id} |-> notes[i]]
                ELSE notes
    /\ ret' = [NoReturn EXCEPT !.op = "deleteQuickNote", !.wordId = id,
                               !.result = dbOk, !.dbOk = dbOk]
    /\ UNCHANGED nextNoteId

(* ---------------- notificationService and ReminderScreen ---------------- *)
\* the times of day a reminder can be set for (getHours, getMinutes)
Tods == 0..(TicksPerDay - 1)

\* hour 20, minute 0, the defaults of reminder_settings: late in the day
DefaultTod == TicksPerDay - 1

\* scheduledTime.setHours(hour, minute, 0, 0), and one day later when that
\* is not after the clock
Trigger(today, tod) ==
    LET scheduledTime == LocalDay(today) * TicksPerDay + tod - TzOffset
    IN  IF scheduledTime <= today THEN scheduledTime + TicksPerDay
        ELSE scheduledTime

\* a slot is taken by a new handler run only when all lower ones are busy
FreeSave(k) ==
    /\ saves[k].pc = "idle"
    /\ \A r \in SaveSlots : r < k => saves[r].pc # "idle"

\* the step of a handler run in which nothing returned to a caller
Silent == ret' = NoReturn

\* ret when a toggleSwitch or an onTimeChange -> saveSettings run ends;
\* result: it ran to its last line
Ended(c, toTheEnd) ==
    ret' = [NoReturn EXCEPT
              !.op = IF c.toggle THEN "toggleSwitch" ELSE "saveSettings",
              !.result = toTheEnd, !.handler = c]

\* mount effect: await checkNotificationPermissions(), setHasPermission,
\* then loadSettings() of the first render (hasPermission false)
afterCheckNotificationPermissions ==
    /\ screen.mount = "checkNotificationPermissions"
    /\ screen' = [screen EXCEPT !.hasPermission = (permission = "granted"),
                                !.mount = "getReminderSettings"]
    /\ Silent
    /\ UNCHANGED <<settings, scheduled, permission, saves>>

\* getReminderSettings(): the row, or the defaults when there is none or
\* the query throws
getReminderSettings(row, dbOk) ==
    IF dbOk /\ row # NULL THEN row
    ELSE [enabled |-> FALSE, time |-> DefaultTod]

\* loadSettings of the first render, from the moment its await
\* getReminderSettings() resolves: setEnabled(settings.enabled &&
\* hasPermission) with the hasPermission of that render, setTime
afterGetReminderSettings(dbOk) ==
    /\ screen.mount = "getReminderSettings"
    /\ screen' = [screen EXCEPT
          !.enabled = getReminderSettings(settings, dbOk).enabled
                         /\ Unmounted.hasPermission,
          !.time = getReminderSettings(settings, dbOk).time,
          !.mount = "done"]
    /\ Silent
    /\ UNCHANGED <<settings, scheduled, permission, saves>>

\* where saveSettings goes on after await saveReminderSetting(...)
AfterSaveReminderSetting(c) ==
    IF c.value /\ c.hasPermission
    THEN "cancelAllScheduledNotificationsAsync"
    ELSE IF ~c.value THEN "cancelAllReminders" ELSE "idle"

\* a run goes on to pc; when that is the end of saveSettings, it ends
GoOn(k, pc) ==
    /\ saves' = [saves EXCEPT ![k] =
                    IF pc = "idle" THEN NoSave ELSE [saves[k] EXCEPT !.pc = pc]]
    /\ IF pc = "idle" THEN Ended(saves[k], TRUE) ELSE Silent

\* toggleSwitch(value), the Switch pressed: value is the opposite of what
\* it shows; up to await requestNotificationPermissions() when enabling,
\* else setEnabled(false) and saveSettings up to its first await
toggleSwitch(k) ==
    /\ FreeSave(k)
    /\ saves' = [saves EXCEPT ![k] =
          [pc |-> IF ~screen.enabled THEN "getPermissionsAsync"
                  ELSE "CREATE TABLE",
           toggle |-> TRUE, value |-> ~screen.enabled, time |-> screen.time,
           hasPermission |-> screen.hasPermission, trigger |-> 0]]
    /\ screen' = IF screen.enabled THEN [screen EXCEPT !.enabled = FALSE]
                 ELSE screen
    /\ Silent
    /\ UNCHANGED <<settings, scheduled, permission>>

\* toggleSwitch after permission was granted: setHasPermission(true),
\* setEnabled(true), saveSettings(value, time) up to its first await
Granted(k) ==
    /\ screen' = [screen EXCEPT !.hasPermission = TRUE, !.enabled = TRUE]
    /\ saves' = [saves EXCEPT ![k].pc = "CREATE TABLE"]
    /\ Silent

\* requestNotificationPermissions: await getPermissionsAsync() resolves
afterGetPermissionsAsync(k) ==
    /\ saves[k].pc = "getPermissionsAsync"
    /\ IF permission = "granted"
       THEN Granted(k)
       ELSE /\ saves' = [saves EXCEPT ![k].pc = "requestPermissionsAsync"]
            /\ Silent
            /\ UNCHANGED screen
    /\ UNCHANGED <<settings, scheduled, permission>>

\* requestNotificationPermissions: await requestPermissionsAsync()
\* resolves with the user's answer; when denied toggleSwitch returns
afterRequestPermissionsAsync(k, grant) ==
    /\ saves[k].pc = "requestPermissionsAsync"
    /\ permission' = IF grant THEN "granted" ELSE "denied"
    /\ IF grant
       THEN Granted(k)
       ELSE /\ screen' = [screen EXCEPT !.hasPermission = FALSE]
            /\ saves' = [saves EXCEPT ![k] = NoSave]
            /\ Ended(saves[k], FALSE)
    /\ UNCHANGED <<settings, scheduled>>

\* onTimeChange(event, selectTime) with a time selected: setTime and
\* saveSettings(enabled, selectTime), not awaited, up to its first await;
\* the picker is shown only while enabled
onTimeChange(k, selectTime) ==
    /\ FreeSave(k)
    /\ screen.enabled
    /\ screen' = [screen EXCEPT !.time = selectTime]
    /\ saves' = [saves EXCEPT ![k] =
          [pc |-> "CREATE TABLE", toggle |-> FALSE, value |-> screen.enabled,
           time |-> selectTime, hasPermission |-> screen.hasPermission,
           trigger |-> 0]]
    /\ Silent
    /\ UNCHANGED <<settings, scheduled, permission>>

\* saveReminderSetting: await execAsync(CREATE TABLE IF NOT EXISTS)
\* resolves; when it throws the catch returns false to saveSettings
afterCreateTable(k, dbOk) ==
    /\ saves[k].pc = "CREATE TABLE"
    /\ GoOn(k, IF dbOk THEN "DELETE" ELSE AfterSaveReminderSetting(saves[k]))
    /\ UNCHANGED <<settings, scheduled, permission, screen>>

\* saveReminderSetting: await runAsync(DELETE ... WHERE id = 1) resolves
afterDelete(k, dbOk) ==
    /\ saves[k].pc = "DELETE"
    /\ settings' = IF dbOk THEN NULL ELSE settings
    /\ GoOn(k, IF dbOk THEN "INSERT" ELSE AfterSaveReminderSetting(saves[k]))
    /\ UNCHANGED <<scheduled, permission, screen>>

\* saveReminderSetting: await runAsync(INSERT ...) resolves, and
\* saveSettings goes on to schedule or cancel
afterInsert(k, dbOk) ==
    /\ saves[k].pc = "INSERT"
    /\ settings' = IF dbOk
                   THEN [enabled |-> saves[k].value, time |-> saves[k].time]
                   ELSE settings
    /\ GoOn(k, AfterSaveReminderSetting(saves[k]))
    /\ UNCHANGED <<scheduled, permission, screen>>

\* scheduleDailyReminder: await cancelAllScheduledNotificationsAsync()
\* resolves, then the trigger is computed from new Date(); the await is
\* outside the try, so a rejection ends saveSettings
afterCancelAllScheduledNotificationsAsync(k, ok) ==
    /\ saves[k].pc = "cancelAllScheduledNotificationsAsync"
    /\ IF ok
       THEN /\ scheduled' = <<>>
            /\ saves' = [saves EXCEPT
                  ![k].pc = "scheduleNotificationAsync",
                  ![k].trigger = Trigger(now, saves[k].time)]
            /\ Silent
       ELSE /\ saves' = [saves EXCEPT ![k] = NoSave]
            /\ Ended(saves[k], FALSE)
            /\ UNCHANGED scheduled
    /\ UNCHANGED <<settings, permission, screen>>

\* scheduleDailyReminder: await scheduleNotificationAsync(...) resolves
\* (null from the catch when it throws), and saveSettings ends
afterScheduleNotificationAsync(k, ok) ==
    /\ saves[k].pc = "scheduleNotificationAsync"
    /\ scheduled' = IF ok THEN Append(scheduled, saves[k].trigger)
                    ELSE scheduled
    /\ GoOn(k, "idle")
    /\ UNCHANGED <<settings, permission, screen>>

\* cancelAllReminders(): await cancelAllScheduledNotificationsAsync()
\* resolves (false from the catch when it throws), and saveSettings ends
afterCancelAllReminders(k, ok) ==
    /\ saves[k].pc = "cancelAllReminders"
    /\ scheduled' = IF ok THEN <<>> ELSE scheduled
    /\ GoOn(k, "idle")
    /\ UNCHANGED <<settings, permission, screen>>

\* the steps of ReminderScreen and the services it calls, the handlers
\* running in the slots K, the database and the notification calls
\* succeeding as B says, the times picked being in T
NextReminderScreen(K, B, T) ==
    \/ afterCheckNotificationPermissions
    \/ \E dbOk \in B : afterGetReminderSettings(dbOk)
    \/ \E k \in K : toggleSwitch(k)
    \/ \E k \in K : afterGetPermissionsAsync(k)
    \/ \E k \in K, grant \in BOOLEAN :
          afterRequestPermissionsAsync(k, grant)
    \/ \E k \in K, selectTime \in T : onTimeChange(k, selectTime)
    \/ \E k \in K, dbOk \in B : afterCreateTable(k, dbOk)
    \/ \E k \in K, dbOk \in B : afterDelete(k, dbOk)
    \/ \E k \in K, dbOk \in B : afterInsert(k, dbOk)
    \/ \E k \in K, ok \in B :
          afterCancelAllScheduledNotificationsAsync(k, ok)
    \/ \E k \in K, ok \in B :
          afterScheduleNotificationAsync(k, ok)
    \/ \E k \in K, ok \in B : afterCancelAllReminders(k, ok)

(* ---------------- learningService operations ---------------- *)
\* getWordsForReview that puts the rows it returns back to new
getWordsForReview_Resetting(dbOk) ==
    /\ ret' = [NoReturn EXCEPT
                 !.op = "getWordsForReview",
                 !.dbOk = dbOk,
                 !.rows = SelectSeq(getSavedWords(words, dbOk),
                                    LAMBDA w : IsDue(w, now))]
    /\ words' = [i \in DOMAIN words |->
                    IF dbOk /\ IsDue(words[i], now) THEN NewRow ELSE words[i]]
    /\ UNCHANGED <<nextId, now, calls, reviewedAt, cards>>

\* getWordsForReview(): await getSavedWords(), today = new Date(), filter
getWordsForReview(dbOk) ==
    /\ ret' = [NoReturn EXCEPT
                 !.op = "getWordsForReview",
                 !.dbOk = dbOk,
                 !.rows = SelectSeq(getSavedWords(words, dbOk),
                                    LAMBDA w : IsDue(w, now))]
    /\ UNCHANGED <<words, nextId, now, calls, reviewedAt, cards>>

\* a slot is taken by a new invocation only when all lower ones are busy
FreeSlot(s) ==
    /\ calls[s].pc = "idle"
    /\ \A r \in Slots : r < s => calls[r].pc # "idle"

\* updateWordAfterReview(wordId, isCorrect) up to its first await
updateWordAfterReview(s, wordId, isCorrect) ==
    /\ FreeSlot(s)
    /\ calls' = [calls EXCEPT ![s] =
                    [Idle EXCEPT !.pc = "getSavedWords", !.wordId = wordId,
                                 !.isCorrect = isCorrect]]
    /\ ret' = NoReturn
    /\ UNCHANGED <<words, nextId, now, reviewedAt, cards>>

\* afterGetSavedWords that writes in the step in which it read: the read
\* and the write-back as one step
afterGetSavedWords_Atomic(s, dbOk) ==
    LET c     == calls[s]
        hit   == Find(getSavedWords(words, dbOk), c.wordId)
        level == NewLearningLevel(hit[1].learning_level, c.isCorrect)
        found == hit # <<>> /\ ~InvalidDate(level)
    IN  /\ c.pc = "getSavedWords"
        /\ words' = IF found
                    THEN UpdateRow(words, c.wordId, level,
                                   NextReviewDate(now, level))
                    ELSE words
        /\ reviewedAt' = [i \in DOMAIN words |->
              IF found /\ i = c.wordId THEN now ELSE reviewedAt[i]]
        /\ ret' = [NoReturn EXCEPT !.op = "updateWordAfterReview",
                      !.wordId = c.wordId, !.isCorrect = c.isCorrect,
                      !.result = found, !.dbOk = dbOk,
                      !.wordLevel = IF hit = <<>> THEN 0
                                    ELSE hit[1].learning_level,
                      !.today = IF hit = <<>> THEN 0 ELSE now]
        /\ calls' = [calls EXCEPT ![s] = Idle]
        /\ UNCHANGED <<nextId, now, cards>>

\* await getSavedWords() resolves: find, the level, the date, and the
\* call of updateWordLearningStatus up to its db.runAsync; false when the
\* word is not found and, from the catch, when toISOString() throws
afterGetSavedWords(s, dbOk) ==
    LET c     == calls[s]
        hit   == Find(getSavedWords(words, dbOk), c.wordId)
        level == NewLearningLevel(hit[1].learning_level, c.isCorrect)
    IN  /\ c.pc = "getSavedWords"
        /\ IF hit = <<>> \/ InvalidDate(level)
           THEN /\ calls' = [calls EXCEPT ![s] = Idle]
                /\ ret' = [NoReturn EXCEPT !.op = "updateWordAfterReview",
                              !.wordId = c.wordId, !.isCorrect = c.isCorrect,
                              !.result = FALSE, !.dbOk = dbOk,
                              !.wordLevel = IF hit = <<>> THEN 0
                                            ELSE hit[1].learning_level,
                              !.today = IF hit = <<>> THEN 0 ELSE now]
           ELSE /\ calls' = [calls EXCEPT ![s] =
                      [c EXCEPT !.pc = "updateWordLearningStatus",
                                !.wordLevel = hit[1].learning_level,
                                !.learningLevel = level,
                                !.today = now,
                                !.nextReviewDate = NextReviewDate(now, level)]]
                /\ ret' = NoReturn
        /\ UNCHANGED <<words, nextId, now, reviewedAt, cards>>

\* await updateWordLearningStatus(...) resolves; its value is returned
afterUpdateWordLearningStatus(s, dbOk) ==
    LET c   == calls[s]
        upd == updateWordLearningStatus(words, c.wordId, c.learningLevel,
                                        c.nextReviewDate, dbOk)
    IN  /\ c.pc = "updateWordLearningStatus"
        /\ words' = upd.words
        /\ reviewedAt' = [i \in DOMAIN words |->
              IF dbOk /\ i = c.wordId THEN c.today ELSE reviewedAt[i]]
        /\ ret' = [NoReturn EXCEPT !.op = "updateWordAfterReview",
                      !.wordId = c.wordId, !.isCorrect = c.isCorrect,
                      !.result = upd.success, !.wordLevel = c.wordLevel,
                      !.today = c.today, !.dbOk = dbOk]
        /\ calls' = [calls EXCEPT ![s] = Idle]
        /\ UNCHANGED <<nextId, now, cards>>

\* FlashcardScreen.loadCards, from the moment its await
\* getWordsForReview() resolves: shuffle a copy, setCurrentIndex(0),
\* setCards; ret.rows is the list getWordsForReview returned
loadCards(dbOk) ==
    LET rows == SelectSeq(getSavedWords(words, dbOk),
                          LAMBDA w : IsDue(w, now))
    IN  /\ \E draws \in Draws(Len(rows)) :
              cards' = IF Len(rows) > 0 THEN Shuffle(rows, draws) ELSE <<>>
        /\ currentIndex' = IF Len(rows) > 0 THEN 0 ELSE currentIndex
        /\ loads' = IF loads > 0 THEN loads - 1 ELSE 0
        /\ ret' = [NoReturn EXCEPT !.op = "loadCards", !.dbOk = dbOk,
                                   !.rows = rows]
        /\ UNCHANGED <<words, nextId, now, calls, reviewedAt, timers,
                       snackbar, reviews>>

(* ---------------- FlashcardScreen: navigation and review ---------------- *)
\* the view with the card and the buttons is rendered: cards is not empty
\* and the safety check for an invalid index lets the render through
CardShown == cards # <<>> /\ currentIndex < Len(cards)

\* index updates pending in a setTimeout, or to be set by a handler that
\* is awaiting updateWordAfterReview
PendingMoves ==
    Len(timers) + Cardinality({s \in Slots : reviews[s].pc # "idle"})

\* Refresh (shown when there are no cards) or Shuffle Cards (shown with
\* a card) is pressed: loadCards() up to its await getWordsForReview()
pressLoadCards ==
    /\ cards = <<>> \/ CardShown
    /\ loads' = loads + 1
    /\ ret' = NoReturn
    /\ UNCHANGED <<words, nextId, now, calls, reviewedAt, cards,
                   currentIndex, timers, snackbar, reviews>>

\* nextCard() called by the render or handler that saw index and length:
\* the timers after it
NextCardTimers(index, length) ==
    IF index < length - 1 THEN Append(timers, index + 1) ELSE timers

\* Next is pressed (disabled on the last card): nextCard()
nextCard ==
    /\ CardShown
    /\ currentIndex # Len(cards) - 1
    /\ timers' = NextCardTimers(currentIndex, Len(cards))
    /\ ret' = NoReturn
    /\ UNCHANGED <<words, nextId, now, calls, reviewedAt, cards,
                   currentIndex, loads, snackbar, reviews>>

\* Previous is pressed (disabled on the first card): prevCard()
prevCard ==
    /\ CardShown
    /\ currentIndex # 0
    /\ timers' = IF currentIndex > 0 THEN Append(timers, currentIndex - 1)
                 ELSE timers
    /\ ret' = NoReturn
    /\ UNCHANGED <<words, nextId, now, calls, reviewedAt, cards,
                   currentIndex, loads, snackbar, reviews>>

\* the callback of the oldest setTimeout runs: setCurrentIndex with the
\* index computed when the timer was set
afterTimeout ==
    /\ timers # <<>>
    /\ currentIndex' = Head(timers)
    /\ timers' = Tail(timers)
    /\ ret' = NoReturn
    /\ UNCHANGED <<words, nextId, now, calls, reviewedAt, cards,
                   loads, snackbar, reviews>>

\* Nailed It! (isCorrect) or Still Tricky is pressed: handleKnownWord or
\* handleNeedsPractice up to its await updateWordAfterReview(id, isCorrect)
handleReview(s, isCorrect) ==
    /\ CardShown
    /\ updateWordAfterReview(s, cards[currentIndex + 1].id, isCorrect)
    /\ reviews' = [reviews EXCEPT ![s] =
                      [pc |-> "updateWordAfterReview",
                       index |-> currentIndex, length |-> Len(cards)]]
    /\ UNCHANGED <<currentIndex, timers, loads, snackbar>>

\* the handler after its await: the value of updateWordAfterReview is
\* dropped, the snackbar is shown and nextCard() of the handler's render
\* is called
afterUpdateWordAfterReview(s) ==
    /\ snackbar' = [visible |-> TRUE, wordId |-> calls[s].wordId,
                    isCorrect |-> calls[s].isCorrect]
    /\ timers' = NextCardTimers(reviews[s].index, reviews[s].length)
    /\ reviews' = [reviews EXCEPT ![s] = NoHandler]
    /\ UNCHANGED <<currentIndex, loads>>

\* a step of the updateWordAfterReview a handler awaits; when the call
\* returns in it, the handler goes on at once
reviewStep(s, dbOk) ==
    /\ reviews[s].pc = "updateWordAfterReview"
    /\ \/ afterGetSavedWords(s, dbOk)
       \/ afterUpdateWordLearningStatus(s, dbOk)
    /\ IF calls'[s].pc = "idle"
       THEN afterUpdateWordAfterReview(s)
       ELSE UNCHANGED flashVars

\* the Snackbar, rendered with the card, is dismissed (after 2000 ms)
onDismiss ==
    /\ CardShown
    /\ snackbar.visible
    /\ snackbar' = [snackbar EXCEPT !.visible = FALSE]
    /\ ret' = NoReturn
    /\ UNCHANGED <<words, nextId, now, calls, reviewedAt, cards,
                   currentIndex, timers, loads, reviews>>

\* the wall clock advances
Tick ==
    /\ now' = now + 1
    /\ ret' = NoReturn
    /\ UNCHANGED <<words, nextId, calls, reviewedAt, cards>>

\* the steps of a run with at most W rows ever inserted, the clock up to T
\* and at most C updateWordAfterReview calls in flight
NextWithin(W, T, C) ==
    \/ \E dbOk \in BOOLEAN :
          nextId <= W /\ saveWord(dbOk) /\ UNCHANGED others
    \/ \E id \in 1..W, dbOk \in BOOLEAN :
          deleteWord(id, dbOk) /\ UNCHANGED others
    \/ \E dbOk \in BOOLEAN : getWordsForReview(dbOk) /\ UNCHANGED others
    \/ \E s \in 1..C, id \in 1..W, isCorrect \in BOOLEAN :
          updateWordAfterReview(s, id, isCorrect) /\ UNCHANGED others
    \/ \E s \in Slots, dbOk \in BOOLEAN :
          afterGetSavedWords(s, dbOk) /\ UNCHANGED others
    \/ \E s \in Slots, dbOk \in BOOLEAN :
          afterUpdateWordLearningStatus(s, dbOk) /\ UNCHANGED others
    \/ now < T /\ Tick /\ UNCHANGED others

\* the caller awaits each updateWordAfterReview before it starts the next
Next == NextWithin(MaxWords, MaxTime, 1)

Spec == Init /\ [][Next]_vars

\* the caller starts a second updateWordAfterReview while one is in flight
NextConc == NextWithin(ConcWords, ConcTime, MaxCalls)

SpecConc == Init /\ [][NextConc]_vars

\* a row as the program leaves it, with the clock its last review read:
\* as saveWord inserted it, or as a review written at the start of the run
\* or PastDays days before left it
StoredRows ==
    {[row |-> NewRow, at |-> NoReview]} \cup
    {[row |-> [learning_level |-> NewLearningLevel(l, c),
               next_review_date |->
                   NextReviewDate(t, NewLearningLevel(l, c))],
      at  |-> t] :
        l \in 0..(Len(INTERVALS) - 1), c \in BOOLEAN,
        t \in {0 - PastDays * TicksPerDay, 0}}

\* the practice screen opens on a table of CardWords rows
InitCards ==
    /\ \E stored \in [1..CardWords -> StoredRows] :
          /\ words = [i \in 1..CardWords |-> stored[i].row]
          /\ reviewedAt = [i \in 1..CardWords |-> stored[i].at]
    /\ nextId = CardWords + 1
    /\ now = 0
    /\ calls = [s \in Slots |-> Idle]
    /\ ret = NoReturn
    /\ cards = <<>>
    /\ InitOthers

\* the screen loads its cards, words are selected and deleted, time passes
NextCards ==
    \/ \E dbOk \in BOOLEAN :
          loadCards(dbOk) /\ UNCHANGED <<noteVars, reminderVars>>
    \/ \E dbOk \in BOOLEAN : getWordsForReview(dbOk) /\ UNCHANGED others
    \/ \E id \in 1..CardWords, dbOk \in BOOLEAN :
          deleteWord(id, dbOk) /\ UNCHANGED others
    \/ now < CardTime /\ Tick /\ UNCHANGED others

SpecCards == InitCards /\ [][NextCards]_vars

\* the state of the words service and of FlashcardScreen's cards
wordVars == <<words, nextId, calls, reviewedAt, cards>>

\* ReminderScreen is opened on a device whose permission status is any
InitReminder ==
    /\ InitWords
    /\ InitFlash
    /\ InitNotes
    /\ InitReminderScreen
    /\ permission \in {"undetermined", "granted", "denied"}

\* the reminder screen in use
NextReminder ==
    NextReminderScreen(SaveSlots, BOOLEAN, Tods)
        /\ UNCHANGED <<wordVars, now, flashVars, noteVars>>

SpecReminder == InitReminder /\ [][NextReminder]_vars

\* every operation of databaseService on a table of at most FrameWords
\* rows, the first FrameReviewed of them reviewed and in the category asked
\* for, with ReminderScreen saving its setting and the time left as it
\* is; the statements other than the UPDATE of a review succeed
NextFrame ==
    \/ \E dbOk \in {TRUE} :
          nextId <= FrameWords /\ saveWord(dbOk) /\ UNCHANGED others
    \/ \E id \in 1..FrameWords, dbOk \in {TRUE} :
          deleteWord(id, dbOk) /\ UNCHANGED others
    \/ \E dbOk \in {TRUE} : listSavedWords(dbOk) /\ UNCHANGED others
    \/ \E match \in {{}, 1..FrameReviewed}, dbOk \in {TRUE} :
          getWordsByCategory(match, dbOk) /\ UNCHANGED others
    \/ \E dbOk \in {TRUE} : getLearningStats(dbOk) /\ UNCHANGED others
    \/ \E id \in 1..FrameReviewed, isCorrect \in BOOLEAN :
          updateWordAfterReview(1, id, isCorrect) /\ UNCHANGED others
    \/ \E dbOk \in {TRUE} :
          afterGetSavedWords(1, dbOk) /\ UNCHANGED others
    \/ \E dbOk \in BOOLEAN :
          afterUpdateWordLearningStatus(1, dbOk) /\ UNCHANGED others
    \/ \E dbOk \in {TRUE} :
          /\ nextNoteId <= FrameNotes
          /\ saveQuickNote(dbOk)
          /\ UNCHANGED <<wordVars, now, flashVars, reminderVars>>
    \/ \E includeProcessed \in BOOLEAN :
          /\ getQuickNotes(includeProcessed)
          /\ UNCHANGED <<wordVars, now, flashVars, reminderVars>>
    \/ \E id \in 1..FrameNotes, dbOk \in {TRUE} :
          /\ markNoteProcessed(id, dbOk)
          /\ UNCHANGED <<wordVars, now, flashVars, reminderVars>>
    \/ \E id \in 1..FrameNotes, dbOk \in {TRUE} :
          /\ deleteQuickNote(id, dbOk)
          /\ UNCHANGED <<wordVars, now, flashVars, reminderVars>>
    \/ NextReminderScreen(1..FrameSaves, {TRUE}, {DefaultTod})
          /\ UNCHANGED <<wordVars, now, flashVars, noteVars>>

SpecFrame == Init /\ [][NextFrame]_vars

\* the practice screen is opened on a table of FlashWords new words: the
\* mount effect has called loadCards
InitFlashcards ==
    /\ words = [i \in 1..FlashWords |-> NewRow]
    /\ reviewedAt = [i \in 1..FlashWords |-> NoReview]
    /\ nextId = FlashWords + 1
    /\ now = 0
    /\ calls = [s \in Slots |-> Idle]
    /\ ret = NoReturn
    /\ cards = <<>>
    /\ currentIndex = 0
    /\ timers = <<>>
    /\ loads = 1
    /\ snackbar = NoSnackbar
    /\ reviews = [s \in Slots |-> NoHandler]
    /\ InitNotes
    /\ InitReminderScreen
    /\ permission = "undetermined"

\* the practice screen in use
NextFlashcards ==
    \/ \E dbOk \in BOOLEAN :
          loads > 0 /\ loadCards(dbOk) /\ UNCHANGED <<noteVars, reminderVars>>
    \/ loads < MaxLoads /\ pressLoadCards
          /\ UNCHANGED <<noteVars, reminderVars>>
    \/ PendingMoves < MaxTimers /\ nextCard
          /\ UNCHANGED <<noteVars, reminderVars>>
    \/ PendingMoves < MaxTimers /\ prevCard
          /\ UNCHANGED <<noteVars, reminderVars>>
    \/ afterTimeout /\ UNCHANGED <<noteVars, reminderVars>>
    \/ \E s \in 1..FlashCalls, isCorrect \in BOOLEAN :
          /\ PendingMoves < MaxTimers
          /\ handleReview(s, isCorrect)
          /\ UNCHANGED <<noteVars, reminderVars>>
    \/ \E s \in Slots, dbOk \in BOOLEAN :
          reviewStep(s, dbOk) /\ UNCHANGED <<noteVars, reminderVars>>
    \/ onDismiss /\ UNCHANGED <<noteVars, reminderVars>>

SpecFlash == InitFlashcards /\ [][NextFlashcards]_vars

\* the levels the row of a table written before this run can hold: the
\* column is an unconstrained INTEGER, so any level, or NULL
AnyLevels ==
    ((0 - LevelSpread)..(Len(INTERVALS) - 1 + LevelSpread)) \cup {NullLevel}

\* the state when the app starts on a table that already holds one row
InitAny ==
    /\ \E level \in AnyLevels, date \in {NULL, ToISOString(0)} :
          words = <<[learning_level |-> level, next_review_date |-> date]>>
    /\ nextId = 2
    /\ now = 0
    /\ calls = [s \in Slots |-> Idle]
    /\ ret = NoReturn
    /\ reviewedAt = <<NoReview>>
    /\ cards = <<>>
    /\ InitOthers

NextAny == NextWithin(AnyWords, AnyTime, 1)

SpecAny == InitAny /\ [][NextAny]_vars

TypeOK ==
    /\ \A i \in DOMAIN words : i < nextId
    /\ DOMAIN reviewedAt = DOMAIN words
    /\ now >= 0

(* ======================================================================= *)
(* Properties                                                              *)
(* ======================================================================= *)

\* the ids of the rows a getWordsForReview call returned
Returned == {ret.rows[i].id : i \in 1..Len(ret.rows)}

\* the step just taken returned from updateWordAfterReview after its UPDATE
\* ran, and the row it was for is still in the table
Reviewed ==
    /\ ret.op = "updateWordAfterReview"
    /\ ret.result
    /\ ret.wordId \in DOMAIN words

\* the step just taken was a getWordsForReview whose query ran
Selected == ret.op = "getWordsForReview" /\ ret.dbOk

\* C1: a correct outcome stores min(masteryLevel + 1, L - 1), L = 6, where
\* masteryLevel is the level the row held when the write was applied
C1_CorrectAdvances ==
    [][(/\ ret'.op = "updateWordAfterReview"
        /\ ret'.result
        /\ ret'.isCorrect
        /\ ret'.wordId \in DOMAIN words')
       => /\ Len(INTERVALS) = 6
          /\ words'[ret'.wordId].learning_level =
                Min(words[ret'.wordId].learning_level + 1, 6 - 1)]_vars

\* C1 witness: a correct review of a row at the top level was written
C1_Witness ==
    /\ Reviewed
    /\ ret.isCorrect
    /\ ret.wordLevel = 5
    /\ words[ret.wordId].learning_level = 5

\* C2: an incorrect outcome stores level 0 and the date one day after the
\* moment of the review, whatever the level was
C2_ResetLaw ==
    (Reviewed /\ ~ret.isCorrect)
    => /\ words[ret.wordId].learning_level = 0
       /\ words[ret.wordId].next_review_date # NULL
       /\ ParseDate(words[ret.wordId].next_review_date)
             = ret.today + 1 * TicksPerDay

\* C2 witness: an incorrect review of a row at level 4 was written
C2_Witness ==
    /\ Reviewed
    /\ ~ret.isCorrect
    /\ ret.wordLevel = 4
    /\ words[ret.wordId].learning_level = 0

\* C3: after a review is written the stored date is the moment of the
\* review plus the interval of the NEW level, from the table 1,3,7,14,30,90
C3_DateFromNewLevel ==
    Reviewed
    => /\ INTERVALS = <<1, 3, 7, 14, 30, 90>>
       /\ words[ret.wordId].next_review_date # NULL
       /\ ParseDate(words[ret.wordId].next_review_date)
             = ret.today
               + INTERVALS[words[ret.wordId].learning_level + 1] * TicksPerDay

\* C3 witness: level 2 reviewed correctly gives level 3 and 14 days
C3_Witness ==
    /\ Reviewed
    /\ ret.isCorrect
    /\ ret.wordLevel = 2
    /\ words[ret.wordId].learning_level = 3
    /\ ParseDate(words[ret.wordId].next_review_date)
          = ret.today + 14 * TicksPerDay

\* C4: getWordsForReview returns every dated row whose date is now or
\* earlier and no row whose date is later than now, at every level
C4_DueByDate ==
    Selected
    => \A id \in DOMAIN words :
          words[id].next_review_date # NULL
          => (id \in Returned
              <=> ParseDate(words[id].next_review_date) <= now)

\* C5: every row without a date is returned by getWordsForReview
C5_UndatedAreDue ==
    Selected
    => \A id \in DOMAIN words :
          words[id].next_review_date = NULL => id \in Returned

\* C5 witness: an undated row was returned after the clock had advanced,
\* next to a dated row that was not
C5_Witness ==
    /\ Selected
    /\ now > 0
    /\ \E id \in DOMAIN words :
          words[id].next_review_date = NULL /\ id \in Returned
    /\ \E id \in DOMAIN words :
          words[id].next_review_date # NULL /\ id \notin Returned

\* C6: a row last reviewed at t and left at level m is not returned before
\* t + INTERVALS[m] days and is returned from then on, for every m in 0..5
C6_WaitingPeriod ==
    Selected
    => \A id \in DOMAIN words :
          reviewedAt[id] # NoReview
          => (id \in Returned
              <=> now >= reviewedAt[id]
                         + INTERVALS[words[id].learning_level + 1]
                           * TicksPerDay)

\* C7: every stored level is an integer in 0..5
C7_LevelInRange ==
    \A id \in DOMAIN words : words[id].learning_level \in 0..5

\* C7 witness: a row is at the top level while two reviews of it are in
\* flight, one of them about to write
C7_Witness ==
    \E id \in DOMAIN words :
       /\ words[id].learning_level = 5
       /\ \A s \in Slots : calls[s].pc # "idle" /\ calls[s].wordId = id
       /\ \E s \in Slots : calls[s].pc = "updateWordLearningStatus"

\* C8: a row's date is absent, or it is the clock read by the review last
\* written to the row plus the interval of the row's current level
C8_DateConsistent ==
    \A id \in DOMAIN words :
       IF reviewedAt[id] = NoReview
       THEN words[id].next_review_date = NULL
       ELSE /\ words[id].next_review_date # NULL
            /\ ParseDate(words[id].next_review_date)
                  = reviewedAt[id]
                    + INTERVALS[words[id].learning_level + 1] * TicksPerDay

\* C8 witness: two reviews of one row interleaved: the review that read
\* the clock later has been written, the earlier one is still to write
C8_Witness ==
    \E s \in Slots :
       /\ calls[s].pc = "updateWordLearningStatus"
       /\ calls[s].wordId \in DOMAIN words
       /\ reviewedAt[calls[s].wordId] # NoReview
       /\ calls[s].today < reviewedAt[calls[s].wordId]
       /\ calls[s].learningLevel
             # words[calls[s].wordId].learning_level

\* C9: when the lookup finds no row with the id, updateWordAfterReview
\* returns false there and then and the table is left as it was
C9_NotFound ==
    [][\A s \in Slots :
         (/\ calls[s].pc = "getSavedWords"
          /\ calls'[s] # calls[s]
          /\ calls[s].wordId \notin DOMAIN words)
         => /\ calls'[s].pc = "idle"
            /\ ret'.op = "updateWordAfterReview"
            /\ ret'.wordId = calls[s].wordId
            /\ ret'.result = FALSE
            /\ words' = words]_vars

\* C9 witness: the query ran, the table holds a row, and the call returned
\* false because its id is not in the table
C9_Witness ==
    /\ ret.op = "updateWordAfterReview"
    /\ ret.dbOk
    /\ ~ret.result
    /\ ret.wordId \notin DOMAIN words
    /\ DOMAIN words # {}

\* C10: when the UPDATE throws, updateWordAfterReview returns false, does
\* not issue the UPDATE again, and the table is left as it was
C10_WriteFailure ==
    [][\A s \in Slots :
         (/\ calls[s].pc = "updateWordLearningStatus"
          /\ calls'[s] # calls[s]
          /\ ~ret'.dbOk)
         => /\ calls'[s].pc = "idle"
            /\ ret'.op = "updateWordAfterReview"
            /\ ret'.wordId = calls[s].wordId
            /\ ret'.result = FALSE
            /\ words' = words]_vars

\* C10 witness: the UPDATE of a correct review of a row at level 3 threw
\* and the row is still at level 3
C10_Witness ==
    /\ ret.op = "updateWordAfterReview"
    /\ ~ret.dbOk
    /\ ~ret.result
    /\ ret.isCorrect
    /\ ret.wordLevel = 3
    /\ ret.wordId \in DOMAIN words
    /\ words[ret.wordId].learning_level = 3

\* C11 (as claimed): a store read failure is never masked: getWordsForReview
\* whose read failed returns something other than the empty list a
\* successful read with nothing due returns
C11_ReadFailureVisible ==
    (ret.op = "getWordsForReview" /\ ~ret.dbOk) => ret.rows # <<>>

\* C11 (amended): a store read failure is masked: getWordsForReview returns
\* the empty list, the value of a successful read with nothing due, and
\* updateWordAfterReview returns false, the value it returns for a word
\* that is not found, and stores nothing
C11_ReadFailureMasked ==
    [][/\ (ret'.op = "getWordsForReview" /\ ~ret'.dbOk)
            => (ret'.rows = <<>> /\ words' = words)
       /\ \A s \in Slots :
            (calls[s].pc = "getSavedWords" /\ calls'[s] # calls[s]
               /\ ~ret'.dbOk)
            => /\ ret'.op = "updateWordAfterReview"
               /\ ret'.result = FALSE
               /\ calls'[s].pc = "idle"
               /\ words' = words]_vars

\* C11 witness: the read of a getWordsForReview failed while the table held
\* a row that was due
C11_Witness ==
    /\ ret.op = "getWordsForReview"
    /\ ~ret.dbOk
    /\ \E id \in DOMAIN words : IsDue(words[id], now)

\* a stored level is one of the levels 0..5
InRange(level) == level \in 0..(Len(INTERVALS) - 1)

C13_SameDayIsDue ==
    Selected =>
        \A id \in DOMAIN words :
            (/\ words[id].next_review_date # NULL
             /\ LocalDay(ParseDate(words[id].next_review_date))
                  = LocalDay(now))
            => id \in Returned

\* C14: a correct outcome for a row at level 5 leaves the level at 5 and
\* sets the date 90 days after the moment of the review, so any number of
\* correct outcomes in a row keeps the level at 5
C14_CeilingIdempotent ==
    (Reviewed /\ ret.isCorrect /\ ret.wordLevel = 5)
    => /\ words[ret.wordId].learning_level = 5
       /\ words[ret.wordId].next_review_date # NULL
       /\ ParseDate(words[ret.wordId].next_review_date)
            = ret.today + 90 * TicksPerDay

\* C14 witness: a row already at level 5 was reviewed correctly after the
\* clock had moved on, and holds level 5 and the date 90 days ahead
C14_Witness ==
    /\ Reviewed
    /\ ret.isCorrect
    /\ ret.wordLevel = 5
    /\ ret.today > 0
    /\ words[ret.wordId].learning_level = 5
    /\ ParseDate(words[ret.wordId].next_review_date)
         = ret.today + 90 * TicksPerDay

\* C15: for a row whose level is one of 0..5 or is not set, the level a
\* correct outcome stores is never below the level the row held (not set
\* counting as 0)
C15_MonotonicAdvance ==
    [][(/\ ret'.op = "updateWordAfterReview"
        /\ ret'.result
        /\ ret'.isCorrect
        /\ ret'.wordId \in DOMAIN words
        /\ \/ InRange(words[ret'.wordId].learning_level)
           \/ words[ret'.wordId].learning_level = NullLevel)
       => /\ ret'.wordId \in DOMAIN words'
          /\ words'[ret'.wordId].learning_level
               >= LevelOrZero(words[ret'.wordId].learning_level)]_vars

\* C15 witness: a correct review of a row whose level was not set was
\* written, and the row holds level 1
C15_Witness ==
    /\ Reviewed
    /\ ret.isCorrect
    /\ ret.wordLevel = NullLevel
    /\ words[ret.wordId].learning_level = 1

\* C16 (as claimed): a row at level 5 reviewed correctly on 2024-01-01 ends
\* at level 5 with the next review on 2024-04-01
C16_AprilFirst ==
    (/\ Reviewed
     /\ ret.isCorrect
     /\ ret.wordLevel = 5
     /\ CalendarDate(LocalDay(ret.today)) = <<2024, 1, 1>>)
    => /\ words[ret.wordId].learning_level = 5
       /\ CalendarDate(LocalDay(ParseDate(words[ret.wordId].next_review_date)))
            = <<2024, 4, 1>>

\* C16 (amended): a row at level 5 reviewed correctly on 2024-01-01 ends at
\* level 5 with the next review on 2024-03-31, the calendar date 90 days
\* after 2024-01-01 (2024 is a leap year)
C16_MarchThirtyFirst ==
    (/\ Reviewed
     /\ ret.isCorrect
     /\ ret.wordLevel = 5
     /\ CalendarDate(LocalDay(ret.today)) = <<2024, 1, 1>>)
    => /\ words[ret.wordId].learning_level = 5
       /\ CalendarDate(LocalDay(ParseDate(words[ret.wordId].next_review_date)))
            = <<2024, 3, 31>>

\* C16 witness: a correct review of a row at level 5, made on 2024-01-01,
\* was written, and the row is dated in March 2024
C16_Witness ==
    /\ Reviewed
    /\ ret.isCorrect
    /\ ret.wordLevel = 5
    /\ CalendarDate(LocalDay(ret.today)) = <<2024, 1, 1>>
    /\ words[ret.wordId].next_review_date # NULL
    /\ CalendarDate(LocalDay(ParseDate(words[ret.wordId].next_review_date)))[2]
         = 3

\* the ids of the stored rows the filter of getWordsForReview accepts now
DueIds == {id \in DOMAIN words : IsDue(words[id], now)}

\* the step just taken was a loadCards whose query ran
Loaded == ret.op = "loadCards" /\ ret.dbOk

C18_ShuffleBijective ==
    Loaded =>
        LET n == Len(ret.rows)
        IN  /\ Cardinality(Draws(n)) = Cardinality(Permutations(1..n))
            /\ \A d1, d2 \in Draws(n) :
                 Shuffle(ret.rows, d1) = Shuffle(ret.rows, d2) => d1 = d2
            /\ {Shuffle(ret.rows, d) : d \in Draws(n)}
                 = {[i \in 1..n |-> ret.rows[p[i]]] :
                       p \in Permutations(1..n)}

\* C18 witness: three rows were selected and the cards are those rows
\* rotated by one place
C18_Witness ==
    /\ Loaded
    /\ Len(cards) = 3
    /\ cards[1] = ret.rows[2]
    /\ cards[2] = ret.rows[3]
    /\ cards[3] = ret.rows[1]

\* C19: getWordsForReview has no side effect, whether its query ran or
\* threw: the rows stored, their levels and their dates are after the call
\* what they were before it
C19_SelectionIsPure ==
    [][ret'.op = "getWordsForReview"
       => /\ words' = words
          /\ nextId' = nextId
          /\ reviewedAt' = reviewedAt]_vars

\* C19 witness: a getWordsForReview returned one of two stored rows, a row
\* that carries a date
C19_Witness ==
    /\ Selected
    /\ Cardinality(DOMAIN words) = 2
    /\ Len(ret.rows) = 1
    /\ ret.rows[1].next_review_date # NULL

\* C20: a word created by saveWord holds level 0 and no date until a review
\* of it is written, and every getWordsForReview whose query ran before
\* then returns it, whatever the clock
C20_NewWordIsDue ==
    \A id \in DOMAIN words :
        reviewedAt[id] = NoReview
        => /\ words[id].learning_level = 0
           /\ words[id].next_review_date = NULL
           /\ Selected => id \in Returned

\* C20 witness: a word no review was written to was returned when the
\* clock had run to its end
C20_Witness ==
    /\ Selected
    /\ now = MaxTime
    /\ \E id \in DOMAIN words :
          reviewedAt[id] = NoReview /\ id \in Returned


\* the word an updateWordAfterReview step in slot s is about
StepWordId(s) ==
    IF calls[s].pc = "idle" THEN calls'[s].wordId ELSE calls[s].wordId

\* C22: a step of updateWordAfterReview for a word, whether the call
\* succeeds or fails, adds no row, deletes no row and leaves every other
\* row as it was; a call that returns false changed nothing at all and
\* leaves its slot idle, so what follows runs as if it had not been made
C22_UpdateTouchesOnlyItsRow ==
    [][\A s \in Slots :
          calls'[s] # calls[s]
          => /\ DOMAIN words' = DOMAIN words
             /\ nextId' = nextId
             /\ \A i \in DOMAIN words :
                   i # StepWordId(s) => words'[i] = words[i]
             /\ (ret'.op = "updateWordAfterReview" /\ ~ret'.result)
                   => words' = words /\ calls'[s] = Idle]_vars

\* C22 witness: the UPDATE of a stored word failed while another word that
\* had been reviewed was stored
C22_Witness ==
    /\ ret.op = "updateWordAfterReview"
    /\ ~ret.result
    /\ ~ret.dbOk
    /\ ret.wordId \in DOMAIN words
    /\ \E i \in DOMAIN words :
          i # ret.wordId /\ reviewedAt[i] # NoReview


\* C23: the read and the write-back of updateWordAfterReview are two
\* steps: the step in which getSavedWords resolves writes nothing, and the
\* step in which the UPDATE runs stores the level computed from the level
\* the call had read, whatever the row holds by then; so of two calls that
\* read the same level l and are both correct, the second to write stores
\* l + 1 again
C23_WriteBackOfStaleRead ==
    [][\A s \in Slots :
          /\ (calls[s].pc = "getSavedWords" /\ calls'[s] # calls[s])
                => words' = words
          /\ (/\ calls[s].pc = "updateWordLearningStatus"
              /\ calls'[s] # calls[s]
              /\ ret'.dbOk
              /\ calls[s].wordId \in DOMAIN words)
                => words'[calls[s].wordId].learning_level
                      = NewLearningLevel(calls[s].wordLevel,
                                         calls[s].isCorrect)]_vars

\* C23 witness: two correct reviews of one row both read level l; one has
\* written l + 1 and returned true, the other is about to write
C23_Witness ==
    \E s \in Slots :
       /\ calls[s].pc = "updateWordLearningStatus"
       /\ calls[s].isCorrect
       /\ ret.op = "updateWordAfterReview"
       /\ ret.result
       /\ ret.isCorrect
       /\ ret.wordId = calls[s].wordId
       /\ ret.wordLevel = calls[s].wordLevel
       /\ ret.wordId \in DOMAIN words
       /\ LevelOrZero(ret.wordLevel) < 5
       /\ words[ret.wordId].learning_level = LevelOrZero(ret.wordLevel) + 1
       /\ calls[s].learningLevel = words[ret.wordId].learning_level


\* C24: the cards of a session are in order of learning need: no card is
\* shown before a card that needs practice more, one of a lower level and
\* an earlier date (a card without a date was never reviewed)
C24_OrderedByNeed ==
    LET NeedsLess(a, b) ==
            /\ LevelOrZero(a.learning_level) > LevelOrZero(b.learning_level)
            /\ a.next_review_date # NULL
            /\ \/ b.next_review_date = NULL
               \/ ParseDate(a.next_review_date)
                     > ParseDate(b.next_review_date)
    IN  Loaded =>
            \A i, j \in 1..Len(cards) :
                i < j => ~NeedsLess(cards[i], cards[j])


\* C25: at most one reminder notification is scheduled, whatever calls of
\* scheduleDailyReminder and cancelAllReminders were made and however the
\* saveSettings runs that made them overlap
C25_AtMostOneReminder == Len(scheduled) <= 1


\* C26: when updateWordAfterReview has returned true, the row of its word
\* was there as its write was applied and holds what was written: a call
\* whose word was deleted between its read and its write does not return
\* true
C26_SuccessMeansStored ==
    (ret.op = "updateWordAfterReview" /\ ret.result)
    => /\ ret.wordId \in DOMAIN words
       /\ words[ret.wordId].learning_level
             = NewLearningLevel(ret.wordLevel, ret.isCorrect)


\* C21: the level and the date of a row that is there before and after a
\* step change only in the step in which an updateWordAfterReview of that
\* row writes and returns true: saveWord, deleteWord of another row,
\* getSavedWords, getWordsByCategory, getLearningStats, the quick-note
\* operations and the saving and loading of the reminder setting leave
\* them as they were
C21_OnlyReviewChangesRow ==
    [][\A id \in DOMAIN words \cap DOMAIN words' :
          words'[id] # words[id]
          => /\ ret'.op = "updateWordAfterReview"
             /\ ret'.wordId = id
             /\ ret'.result]_vars

\* C21 witness: a row reviewed up to level 2 is stored after another row
\* was saved and deleted, a quick note was saved and marked processed and
\* the reminder setting was saved; getLearningStats has just returned
C21_Witness ==
    /\ ret.op = "getLearningStats"
    /\ 1 \in DOMAIN words
    /\ words[1].learning_level = 2
    /\ words[1].next_review_date # NULL
    /\ nextId = FrameWords + 1
    /\ FrameWords \notin DOMAIN words
    /\ \E n \in DOMAIN notes : notes[n]
    /\ settings # NULL
    /\ settings.enabled


\* C27: a row the filter of getWordsForReview accepts is accepted after
\* every step that leaves the row in the table as it is, so until an
\* updateWordAfterReview writes it or a deleteWord removes it: the clock
\* advancing and the reviews of other rows do not take it out, and a
\* getWordsForReview whose query ran returns it
C27_DueStaysDue ==
    [][\A id \in DueIds :
          (id \in DOMAIN words' /\ words'[id] = words[id])
          => /\ IsDue(words'[id], now')
             /\ Selected' => id \in Returned']_vars

\* C27 witness: a row of a level above 0 whose date has passed, never
\* written in this run, is returned after the clock advanced and another
\* row was reviewed, which is not returned
C27_Witness ==
    /\ Selected
    /\ \E id \in Returned :
          /\ words[id].learning_level \in 1..5
          /\ words[id].next_review_date # NULL
          /\ ParseDate(words[id].next_review_date) < now
          /\ reviewedAt[id] = NoReview
    /\ \E other \in DOMAIN words :
          reviewedAt[other] # NoReview /\ other \notin Returned


C28_IndexInRange ==
    cards # <<>> => (0 <= currentIndex /\ currentIndex < Len(cards))

\* C30: a step in which updateWordAfterReview returns false to a review
\* handler shows no feedback and sets no move to the next card
C30_FeedbackOnlyOnSuccess ==
    [][(ret'.op = "updateWordAfterReview" /\ ~ret'.result)
          => (snackbar' = snackbar /\ timers' = timers)]_vars

====
